---------------------------- MODULE Spec2Model ----------------------------
(***************************************************************************)
(* Wordle-ES (src/wordle.py): the normaliser quitar_acentos, the word      *)
(* acquirer obtener_palabras_de_internet, the validator validar_intento,   *)
(* the evaluator evaluar_intento and the session loop jugar_wordle_es,     *)
(* with the __main__ block that catches KeyboardInterrupt.                 *)
(*                                                                         *)
(* A string is a sequence of characters; a character is a token naming a  *)
(* Unicode code point ("a", "A", "n_tilde" for U+00F1, ...).               *)
(***************************************************************************)
EXTENDS Integers, Sequences, FiniteSets, TLC

VARIABLES
    pc,              \* position of the program (see PosicionesActivas, PosicionesFinales)
    longitud,        \* jugar_wordle_es: longitud (0 before it is read)
    max_intentos,    \* jugar_wordle_es: max_intentos (0 before it is read)
    lista_palabras,  \* jugar_wordle_es: lista_palabras
    secreto,         \* jugar_wordle_es: secreto
    intento,         \* jugar_wordle_es: intento (the last normalised guess)
    evaluacion,      \* jugar_wordle_es: evaluacion (the last GuessResult)
    intentos_info,   \* jugar_wordle_es: intentos_info (the attempt history)
    intentos_hechos, \* jugar_wordle_es: intentos_hechos (the attempt counter)
    mensajes,        \* what the last step printed, as message tags
    revelado,        \* the word printed by "La palabra secreta era: ..." so far
    codigo_salida,   \* the exit status of the process, "ninguno" while it runs
    excepcion,       \* the uncaught exception that ended the process, or "ninguna"
    clase_respuesta, \* how the provider answered the one network call
    rechazos,        \* consecutive rejected guesses since the last accepted one
    senal,           \* "SIGINT" once Ctrl-C was delivered, "ninguna" before
    entrada          \* the argument of the function a harness applies; the
                     \* session holds none

vars == << pc, longitud, max_intentos, lista_palabras, secreto, intento,
           evaluacion, intentos_info, intentos_hechos, mensajes, revelado,
           codigo_salida, excepcion, clase_respuesta, rechazos, senal,
           entrada >>

SinEntrada == << >>

---------------------------------------------------------------------------
(* Colours: the ANSI background codes of lines 10-12, as distinct values.  *)

VERDE == "VERDE"
AMARILLO == "AMARILLO"
ROJO == "ROJO"

---------------------------------------------------------------------------
(* Characters and the Unicode functions the program calls on them.         *)

MinusculasAscii == {"a", "c", "l", "m", "n", "o", "y"}
MayusculasAscii == {"A", "C", "L", "M", "N", "O", "Y"}
\* precomposed accented letters (U+00E1, U+00F3, U+00F1 and their capitals)
Acentuadas == {"a_agudo", "o_agudo", "n_tilde", "A_AGUDO", "O_AGUDO", "N_TILDE"}
\* U+00F8 / U+00D8: letters with no decomposition
LetrasSinDescomposicion == {"o_barra", "O_BARRA"}
\* U+0301 and U+0303, combining marks (category Mn)
Combinantes == {"comb_agudo", "comb_tilde"}
\* U+339C SQUARE MM: a symbol (category So) whose NFKD form is "mm"
Simbolos == {"mm_cuadrado"}
Digitos == {"4"}
Espacios == {"sp"}

Caracteres ==
    MinusculasAscii \cup MayusculasAscii \cup Acentuadas
        \cup LetrasSinDescomposicion \cup Combinantes \cup Simbolos
        \cup Digitos \cup Espacios

\* str.lower() on one character
Minuscula(c) ==
    CASE c = "A" -> "a" [] c = "C" -> "c" [] c = "L" -> "l" [] c = "M" -> "m"
      [] c = "N" -> "n" [] c = "O" -> "o" [] c = "Y" -> "y"
      [] c = "A_AGUDO" -> "a_agudo" [] c = "O_AGUDO" -> "o_agudo"
      [] c = "N_TILDE" -> "n_tilde" [] c = "O_BARRA" -> "o_barra"
      [] OTHER -> c

\* str.upper() on one character
Mayuscula(c) ==
    CASE c = "a" -> "A" [] c = "c" -> "C" [] c = "l" -> "L" [] c = "m" -> "M"
      [] c = "n" -> "N" [] c = "o" -> "O" [] c = "y" -> "Y"
      [] c = "a_agudo" -> "A_AGUDO" [] c = "o_agudo" -> "O_AGUDO"
      [] c = "n_tilde" -> "N_TILDE" [] c = "o_barra" -> "O_BARRA"
      [] OTHER -> c

\* unicodedata.normalize('NFKD', c) for one character
NFKD(c) ==
    CASE c = "a_agudo" -> << "a", "comb_agudo" >>
      [] c = "o_agudo" -> << "o", "comb_agudo" >>
      [] c = "n_tilde" -> << "n", "comb_tilde" >>
      [] c = "A_AGUDO" -> << "A", "comb_agudo" >>
      [] c = "O_AGUDO" -> << "O", "comb_agudo" >>
      [] c = "N_TILDE" -> << "N", "comb_tilde" >>
      [] c = "mm_cuadrado" -> << "m", "m" >>
      [] OTHER -> << c >>

\* unicodedata.combining(c) != 0
EsCombinante(c) == c \in Combinantes

\* c.isalpha() for one character (general category L*)
EsLetra(c) ==
    c \in MinusculasAscii \cup MayusculasAscii \cup Acentuadas
            \cup LetrasSinDescomposicion

\* c.isspace()
EsEspacio(c) == c \in Espacios

\* str.isalpha(): every character is a letter and there is at least one
EsAlfabetica(s) == Len(s) > 0 /\ \A i \in 1..Len(s) : EsLetra(s[i])

\* str.lower()
RECURSIVE EnMinusculas(_)
EnMinusculas(s) ==
    IF s = << >> THEN << >>
    ELSE << Minuscula(Head(s)) >> \o EnMinusculas(Tail(s))

\* str.upper()
RECURSIVE EnMayusculas(_)
EnMayusculas(s) ==
    IF s = << >> THEN << >>
    ELSE << Mayuscula(Head(s)) >> \o EnMayusculas(Tail(s))

\* str.strip(): leading and trailing whitespace removed
RECURSIVE SinEspaciosIzquierda(_)
SinEspaciosIzquierda(s) ==
    IF s # << >> /\ EsEspacio(Head(s)) THEN SinEspaciosIzquierda(Tail(s))
    ELSE s

RECURSIVE SinEspaciosDerecha(_)
SinEspaciosDerecha(s) ==
    IF s # << >> /\ EsEspacio(s[Len(s)])
    THEN SinEspaciosDerecha(SubSeq(s, 1, Len(s) - 1))
    ELSE s

Strip(s) == SinEspaciosDerecha(SinEspaciosIzquierda(s))

\* unicodedata.normalize('NFKD', palabra)
RECURSIVE NormalizarNFKD(_)
NormalizarNFKD(s) ==
    IF s = << >> THEN << >>
    ELSE NFKD(Head(s)) \o NormalizarNFKD(Tail(s))

\* ''.join(c for c in nfkd if not unicodedata.combining(c))
RECURSIVE SinCombinantes(_)
SinCombinantes(s) ==
    IF s = << >> THEN << >>
    ELSE IF EsCombinante(Head(s)) THEN SinCombinantes(Tail(s))
    ELSE << Head(s) >> \o SinCombinantes(Tail(s))

\* quitar_acentos, lines 37-44
\* (mutant: .lower() of line 44 left out)
quitar_acentos_sin_minusculas(palabra) ==
    SinCombinantes(NormalizarNFKD(palabra))

quitar_acentos(palabra) ==
    EnMinusculas(SinCombinantes(NormalizarNFKD(palabra)))

\* validar_intento, lines 85-89 (mutant: the length is the only check)
validar_intento_solo_longitud(s, n) == Len(s) = n

\* (mutant: the letters are the only check)
validar_intento_solo_letras(s, n) == EsAlfabetica(s)

validar_intento(s, n) == Len(s) = n /\ EsAlfabetica(s)

---------------------------------------------------------------------------
(* evaluar_intento, lines 91-130.                                          *)

SinMarcar == << "", "" >>

\* lines 108-111, usado_en_secreto after the first pass
\* (mutant: a position counts as matched when its letter occurs anywhere)
UsadoEnSecreto_en_cualquier_lugar(g, s) ==
    [i \in 1..Len(s) |-> \E j \in 1..Len(s) : g[i] = s[j]]

UsadoEnSecreto(g, s) == [i \in 1..Len(s) |-> g[i] = s[i]]

\* lines 104 and 108-110, resultado after the first pass
PrimeraPasada(g, s) ==
    LET usado == UsadoEnSecreto(g, s)
    IN  [i \in 1..Len(s) |-> IF usado[i] THEN << g[i], VERDE >> ELSE SinMarcar]

\* lines 114-118, conteo_resto: the letters of the secret not matched exactly
\* (mutant: the test of line 116 inverted, the matched letters are counted)
ConteoResto_invertido(s, usado) ==
    LET resto == {i \in 1..Len(s) : usado[i]}
    IN  [c \in {s[i] : i \in resto} |->
            Cardinality({i \in resto : s[i] = c})]

ConteoResto(s, usado) ==
    LET resto == {i \in 1..Len(s) : ~usado[i]}
    IN  [c \in {s[i] : i \in resto} |->
            Cardinality({i \in resto : s[i] = c})]

\* dict.get(k, 0)
Obtener(d, k) == IF k \in DOMAIN d THEN d[k] ELSE 0

\* line 126, conteo_resto[letra] -= 1 (mutant: the count is never decremented)
Descontar_sin_efecto(conteo, letra) == conteo

Descontar(conteo, letra) == [conteo EXCEPT ![letra] = @ - 1]

\* lines 121-128, the second pass from position i on
\* (mutant: the positions are visited from the right)
RECURSIVE SegundaPasada_derecha_a_izquierda(_, _, _, _)
SegundaPasada_derecha_a_izquierda(i, g, resultado, conteo) ==
    LET k == Len(resultado) + 1 - i
    IN  IF i > Len(resultado) THEN resultado
        ELSE IF resultado[k][2] # ""
        THEN SegundaPasada_derecha_a_izquierda(i + 1, g, resultado, conteo)
        ELSE IF Obtener(conteo, g[k]) > 0
        THEN SegundaPasada_derecha_a_izquierda(i + 1, g,
                           [resultado EXCEPT ![k] = << g[k], AMARILLO >>],
                           Descontar(conteo, g[k]))
        ELSE SegundaPasada_derecha_a_izquierda(i + 1, g,
                           [resultado EXCEPT ![k] = << g[k], ROJO >>],
                           conteo)

RECURSIVE SegundaPasada(_, _, _, _)
SegundaPasada(i, g, resultado, conteo) ==
    IF i > Len(resultado) THEN resultado
    ELSE IF resultado[i][2] # ""
    THEN SegundaPasada(i + 1, g, resultado, conteo)
    ELSE IF Obtener(conteo, g[i]) > 0
    THEN SegundaPasada(i + 1, g,
                       [resultado EXCEPT ![i] = << g[i], AMARILLO >>],
                       Descontar(conteo, g[i]))
    ELSE SegundaPasada(i + 1, g,
                       [resultado EXCEPT ![i] = << g[i], ROJO >>],
                       conteo)

\* evaluar_intento: intento[i] with i >= len(intento) raises IndexError in the
\* first pass; letters of the guess past len(secreto) are never read
evaluar_intento(g, s) ==
    IF Len(g) < Len(s)
    THEN [excepcion |-> "IndexError", valor |-> << >>]
    ELSE [excepcion |-> "ninguna",
          valor |-> SegundaPasada(1, g, PrimeraPasada(g, s),
                                  ConteoResto(s, UsadoEnSecreto(g, s)))]

\* line 189, all(color == VERDE for (_, color) in evaluacion)
\* (mutant: any instead of all)
TodasVerdes_alguna(ev) == \E i \in 1..Len(ev) : ev[i][2] = VERDE

TodasVerdes(ev) == \A i \in 1..Len(ev) : ev[i][2] = VERDE

---------------------------------------------------------------------------
(* The evaluator on its own: every pair of words over LetrasEval of length *)
(* 1..MaxLargoEval, and the words of the specification's worked example.   *)

LetrasEval == {"a", "l", "m"}
MaxLargoEval == 4

ALLOY == << "A", "L", "L", "O", "Y" >>
LLAMA == << "L", "L", "A", "M", "A" >>

PalabrasEval ==
    UNION {[1..n -> LetrasEval] : n \in 1..MaxLargoEval} \cup {ALLOY, LLAMA}

InitEval ==
    /\ pc = "evaluar"
    /\ intento \in PalabrasEval
    /\ secreto \in PalabrasEval
    /\ evaluacion = << >>
    /\ longitud = 0
    /\ max_intentos = 0
    /\ lista_palabras = << >>
    /\ intentos_info = << >>
    /\ intentos_hechos = 0
    /\ mensajes = << >>
    /\ revelado = << >>
    /\ codigo_salida = "ninguno"
    /\ excepcion = "ninguna"
    /\ clase_respuesta = "ninguna"
    /\ rechazos = 0
    /\ senal = "ninguna"
    /\ entrada = SinEntrada

\* one call evaluar_intento(intento, secreto)
Evaluar ==
    /\ pc = "evaluar"
    /\ LET r == evaluar_intento(intento, secreto)
       IN  /\ evaluacion' = r.valor
           /\ excepcion' = r.excepcion
    /\ pc' = "evaluado"
    /\ UNCHANGED << longitud, max_intentos, lista_palabras, secreto, intento,
                    intentos_info, intentos_hechos, mensajes, revelado,
                    codigo_salida, clase_respuesta, rechazos, senal,
                    entrada >>

NextEval == Evaluar

SpecEval == InitEval /\ [][NextEval]_vars

---------------------------------------------------------------------------
(* pedir_entero, lines 22-35: one answer to the prompt.                    *)

LongitudMin == 5
LongitudMax == 10
IntentosMin == 1
IntentosMax == 20

\* the largest attempt budget the player of the model asks for
MaxIntentosEntrada == 2

Entero(k) == [tipo |-> "entero", n |-> k]
NoEntero == [tipo |-> "texto", n |-> 0]

EntradasLongitud ==
    {Entero(k) : k \in (LongitudMin - 1)..(LongitudMax + 1)} \cup {NoEntero}

EntradasIntentos ==
    {Entero(k) : k \in (0..MaxIntentosEntrada) \cup {IntentosMax + 1}}
        \cup {NoEntero}

\* lines 29-35: int(input()) raises ValueError on text; the range test
AceptaEntero(e, min_val, max_val) ==
    e.tipo = "entero" /\ min_val <= e.n /\ e.n <= max_val

\* lines 33 and 35: what a refused answer prints
MensajeEntero(e) ==
    IF e.tipo = "entero" THEN "fuera_de_rango" ELSE "entrada_invalida"

---------------------------------------------------------------------------
(* obtener_palabras_de_internet, lines 46-83.                              *)

\* the words the provider of the model may send
P_llama == << "l", "l", "a", "m", "a" >>
P_LLAMA == << "L", "L", "A", "M", "A" >>
P_canon_acentos == << "c", "a", "n_tilde", "o_agudo", "n" >>
P_lla_mm == << "l", "l", "a", "mm_cuadrado" >>
P_mal == << "m", "a", "l" >>
P_ll4ma == << "l", "l", "4", "m", "a" >>
P_macana == << "m", "a", "c", "a", "n", "a" >>

PalabrasProveedor ==
    {P_llama, P_LLAMA, P_canon_acentos, P_lla_mm, P_mal, P_ll4ma, P_macana}

\* one element of the decoded payload
Registro(w) == [tipo |-> "registro", word_tipo |-> "str", word |-> w]
RegistroSinWord == [tipo |-> "registro", word_tipo |-> "ausente", word |-> << >>]
RegistroWordNumero == [tipo |-> "registro", word_tipo |-> "numero", word |-> << >>]
NoRegistro == [tipo |-> "otro", word_tipo |-> "ausente", word |-> << >>]

EntradasProveedor ==
    {Registro(w) : w \in PalabrasProveedor}
        \cup {RegistroSinWord, RegistroWordNumero, NoRegistro}

\* the longest payload of the model
MaxEntradas == 3

Secuencias(S, n) == UNION {[1..k -> S] : k \in 0..n}

\* what the one request can come to: urlopen/read/decode failing (lines 61-62),
\* a body that is no JSON (line 68), a JSON value that is no array (a number;
\* an object, which iterates over its keys), an array of elements
Respuestas ==
    {[transporte |-> t, json |-> "ninguno", datos |-> << >>] :
        t \in {"timeout", "conexion", "http_error", "utf8"}}
    \cup {[transporte |-> "ok", json |-> "invalido", datos |-> << >>]}
    \cup {[transporte |-> "ok", json |-> "numero", datos |-> << >>]}
    \cup {[transporte |-> "ok", json |-> "objeto", datos |-> d] :
            d \in Secuencias({NoRegistro}, 1)}
    \cup {[transporte |-> "ok", json |-> "lista", datos |-> d] :
            d \in Secuencias(EntradasProveedor, MaxEntradas)}

\* entry.get('word', '') and quitar_acentos(w), lines 75-77: the exception
\* one element raises
ErrorDeEntrada(e) ==
    IF e.tipo # "registro" THEN "AttributeError"
    ELSE IF e.word_tipo = "numero" THEN "TypeError"
    ELSE "ninguna"

\* line 75: entry.get('word', '')
CampoWord(e) == IF e.word_tipo = "str" THEN e.word ELSE << >>

\* lines 73-80: the words kept, in the order of the payload
\* (mutant: the length is tested before normalising)
RECURSIVE Filtrar_longitud_sin_normalizar(_, _)
Filtrar_longitud_sin_normalizar(datos, n) ==
    IF datos = << >> THEN << >>
    ELSE LET w == CampoWord(Head(datos))
             w_norm == quitar_acentos(w)
         IN  (IF Len(w) = n /\ EsAlfabetica(w_norm) THEN << w_norm >> ELSE << >>)
                \o Filtrar_longitud_sin_normalizar(Tail(datos), n)

RECURSIVE Filtrar(_, _)
Filtrar(datos, n) ==
    IF datos = << >> THEN << >>
    ELSE LET w_norm == quitar_acentos(CampoWord(Head(datos)))
         IN  (IF Len(w_norm) = n /\ EsAlfabetica(w_norm)
              THEN << w_norm >> ELSE << >>)
                \o Filtrar(Tail(datos), n)

\* line 83: list(dict.fromkeys(palabras)), the first occurrence of each word
RECURSIVE SinDuplicados(_)
SinDuplicados(ws) ==
    IF ws = << >> THEN << >>
    ELSE LET previo == SinDuplicados(SubSeq(ws, 1, Len(ws) - 1))
             w == ws[Len(ws)]
         IN  IF \E i \in 1..Len(previo) : previo[i] = w
             THEN previo ELSE Append(previo, w)

\* lines 64 and 70: what the acquirer prints before it returns []
\* (mutant: the JSON error is not reported)
Diagnostico_sin_json(r) ==
    IF r.transporte # "ok" THEN << "error_conexion" >> ELSE << >>

Diagnostico(r) ==
    IF r.transporte # "ok" THEN << "error_conexion" >>
    ELSE IF r.json = "invalido" THEN << "json_invalido" >>
    ELSE << >>

\* the call as a whole: the list returned, or the exception that leaves it
obtener_palabras_de_internet(r, n) ==
    IF r.transporte # "ok" \/ r.json = "invalido"
    THEN [excepcion |-> "ninguna", valor |-> << >>]
    ELSE IF r.json = "numero"
    THEN [excepcion |-> "TypeError", valor |-> << >>]
    ELSE LET malas == {i \in 1..Len(r.datos) :
                            ErrorDeEntrada(r.datos[i]) # "ninguna"}
         IN  IF malas # {}
             THEN [excepcion |->
                      ErrorDeEntrada(r.datos[CHOOSE i \in malas :
                                                \A j \in malas : i <= j]),
                   valor |-> << >>]
             ELSE [excepcion |-> "ninguna",
                   valor |-> SinDuplicados(Filtrar(r.datos, n))]

---------------------------------------------------------------------------
(* jugar_wordle_es, lines 143-199, and __main__, lines 201-206.            *)

\* what the player of the model types at the guess prompt
T_llama == << "l", "l", "a", "m", "a" >>
T_LLAMA_espacios == << "sp", "L", "L", "A", "M", "A", "sp" >>
T_canon == << "c", "a", "n", "o", "n" >>
T_CANON_acentos == << "C", "A", "N_TILDE", "O_AGUDO", "N" >>
T_alloy == << "a", "l", "l", "o", "y" >>
T_lla_mm == << "l", "l", "a", "mm_cuadrado" >>
T_olla_barra == << "o", "l", "l", "a", "o_barra" >>
T_macana == << "m", "a", "c", "a", "n", "a" >>
T_vacio == << >>
T_mal == << "m", "a", "l" >>
T_ll4ma == << "l", "l", "4", "m", "a" >>
T_ll_ma == << "l", "l", "sp", "m", "a" >>

EntradasIntento ==
    {T_llama, T_LLAMA_espacios, T_canon, T_CANON_acentos, T_alloy, T_lla_mm,
     T_olla_barra, T_macana, T_vacio, T_mal, T_ll4ma, T_ll_ma}

\* the most consecutive rejected guesses the model follows
MaxRechazos == 2

PosicionesActivas ==
    {"pedir_longitud", "pedir_intentos", "descargar", "esperando_intento"}
PosicionesFinales ==
    {"fin_ganado", "fin_perdido", "salida_1", "interrumpido", "excepcion"}

\* lines 173-174: input(...).strip().lower(), then quitar_acentos
NormalizarIntento(crudo) == quitar_acentos(EnMinusculas(Strip(crudo)))

\* lines 189-197: what follows an accepted guess
\* (mutant: the budget is looked at before the colours)
Desenlace_presupuesto_primero(ev, hechos, maximo) ==
    IF hechos >= maximo THEN "perdido"
    ELSE IF TodasVerdes(ev) THEN "ganado"
    ELSE "sigue"

\* (mutant: no break at line 191)
Desenlace_sin_break(ev, hechos, maximo) ==
    IF hechos < maximo THEN "sigue"
    ELSE IF TodasVerdes(ev) THEN "ganado"
    ELSE "perdido"

\* (mutant: line 193 reads <= for <)
Desenlace_uno_de_mas(ev, hechos, maximo) ==
    IF TodasVerdes(ev) THEN "ganado"
    ELSE IF hechos <= maximo THEN "sigue"
    ELSE "perdido"

Desenlace(ev, hechos, maximo) ==
    IF TodasVerdes(ev) THEN "ganado"
    ELSE IF hechos < maximo THEN "sigue"
    ELSE "perdido"

\* line 197: secreto.upper()
\* (mutant: the last guess is printed in its place)
PalabraRevelada_intento(s, g) == EnMayusculas(g)

PalabraRevelada(s, g) == EnMayusculas(s)

Init ==
    /\ pc = "pedir_longitud"
    /\ longitud = 0
    /\ max_intentos = 0
    /\ lista_palabras = << >>
    /\ secreto = << >>
    /\ intento = << >>
    /\ evaluacion = << >>
    /\ intentos_info = << >>
    /\ intentos_hechos = 0
    /\ mensajes = << "bienvenida" >>
    /\ revelado = << >>
    /\ codigo_salida = "ninguno"
    /\ excepcion = "ninguna"
    /\ clase_respuesta = "ninguna"
    /\ rechazos = 0
    /\ senal = "ninguna"
    /\ entrada = SinEntrada

\* line 151: one answer to the length prompt
PedirLongitud ==
    /\ pc = "pedir_longitud"
    /\ \E e \in EntradasLongitud :
          IF AceptaEntero(e, LongitudMin, LongitudMax)
          THEN /\ longitud' = e.n
               /\ pc' = "pedir_intentos"
               /\ mensajes' = << >>
          ELSE /\ mensajes' = << MensajeEntero(e) >>
               /\ UNCHANGED << longitud, pc >>
    /\ UNCHANGED << max_intentos, lista_palabras, secreto, intento, evaluacion,
                    intentos_info, intentos_hechos, revelado, codigo_salida,
                    excepcion, clase_respuesta, rechazos, senal, entrada >>

\* line 154: one answer to the attempts prompt
PedirIntentos ==
    /\ pc = "pedir_intentos"
    /\ \E e \in EntradasIntentos :
          IF AceptaEntero(e, IntentosMin, IntentosMax)
          THEN /\ max_intentos' = e.n
               /\ pc' = "descargar"
               /\ mensajes' = << "obteniendo" >>
          ELSE /\ mensajes' = << MensajeEntero(e) >>
               /\ UNCHANGED << max_intentos, pc >>
    /\ UNCHANGED << longitud, lista_palabras, secreto, intento, evaluacion,
                    intentos_info, intentos_hechos, revelado, codigo_salida,
                    excepcion, clase_respuesta, rechazos, senal, entrada >>

\* how the answer of the provider compares with its interface (a sequence of
\* records, each with a word string): recorded for the properties, read by
\* no step of the program
ClaseDe(r) ==
    IF r.transporte # "ok" THEN "fallo_transporte"
    ELSE IF r.json = "invalido" THEN "json_invalido"
    ELSE IF r.json # "lista" THEN "forma_invalida"
    ELSE IF \E i \in 1..Len(r.datos) :
                r.datos[i].tipo # "registro" \/ r.datos[i].word_tipo # "str"
    THEN "forma_invalida"
    ELSE "ok"

\* line 163: random.choice(lista_palabras), the words it can return
\* (mutant: the secret is drawn from a built-in list, whatever the pool)
Candidatos_lista_fija(lista) == {P_llama, P_macana}

Candidatos(lista) == {lista[i] : i \in 1..Len(lista)}

\* line 164: the debugging print of the secret is a comment, nothing is output
\* (mutant: the print is left active)
SalidaDepuracion_activa(previo, s) == s

SalidaDepuracion(previo, s) == previo

\* line 63: except Exception catches what derives from Exception, which
\* KeyboardInterrupt does not
\* (mutant: a bare except)
CapturadaEnLinea63_todo(e) == TRUE

CapturadaEnLinea63(e) == e # "KeyboardInterrupt"

\* lines 204-206: the handler prints the farewell and nothing of the secret
\* (mutant: the handler prints the secret once there is one)
ReveladoAlInterrumpir_secreto(previo, s) ==
    IF s # << >> THEN EnMayusculas(s) ELSE previo

ReveladoAlInterrumpir(previo, s) == previo

\* line 181: intentos_info.append(evaluacion)
\* (mutant: the list is replaced by the last result)
Registrar_solo_ultimo(info, ev) == << ev >>

Registrar(info, ev) == Append(info, ev)

\* lines 158-170: the network call, the empty-pool exit, the choice of the
\* secret and the start of the loop
Descargar ==
    /\ pc = "descargar"
    /\ \E r \in Respuestas :
          LET res == obtener_palabras_de_internet(r, longitud)
          IN  /\ clase_respuesta' = ClaseDe(r)
              /\ IF res.excepcion # "ninguna"
                 THEN /\ pc' = "excepcion"
                      /\ excepcion' = res.excepcion
                      /\ codigo_salida' = 1
                      /\ mensajes' = << "traceback" >>
                      /\ UNCHANGED << lista_palabras, secreto, revelado >>
                 ELSE IF res.valor = << >>
                 THEN /\ pc' = "salida_1"
                      /\ lista_palabras' = res.valor
                      /\ codigo_salida' = 1
                      /\ mensajes' = Diagnostico(r) \o << "sin_palabras" >>
                      /\ UNCHANGED << excepcion, secreto, revelado >>
                 ELSE /\ pc' = "esperando_intento"
                      /\ lista_palabras' = res.valor
                      /\ \E w \in Candidatos(res.valor) :
                            /\ secreto' = w
                            /\ revelado' = SalidaDepuracion(revelado, w)
                      /\ mensajes' = << "comienza" >>
                      /\ UNCHANGED << excepcion, codigo_salida >>
    /\ UNCHANGED << longitud, max_intentos, intento, evaluacion, intentos_info,
                    intentos_hechos, rechazos, senal, entrada >>

\* lines 172-199: one pass through the loop body, from the prompt to the next
\* prompt or to the return of jugar_wordle_es
Turno ==
    /\ pc = "esperando_intento"
    /\ intentos_hechos < max_intentos
    /\ \E crudo \in EntradasIntento :
          LET g == NormalizarIntento(crudo)
          IN  /\ intento' = g
              /\ IF ~validar_intento(g, longitud)
                 THEN /\ rechazos < MaxRechazos
                      /\ rechazos' = rechazos + 1
                      /\ mensajes' = << "intento_invalido" >>
                      /\ UNCHANGED << pc, evaluacion, intentos_info,
                                      intentos_hechos, revelado, codigo_salida,
                                      excepcion >>
                 ELSE LET res == evaluar_intento(g, secreto)
                          hechos == intentos_hechos + 1
                          fin == Desenlace(res.valor, hechos, max_intentos)
                      IN  IF res.excepcion # "ninguna"
                          THEN /\ pc' = "excepcion"
                               /\ excepcion' = res.excepcion
                               /\ codigo_salida' = 1
                               /\ mensajes' = << "traceback" >>
                               /\ UNCHANGED << evaluacion, intentos_info,
                                               intentos_hechos, revelado,
                                               rechazos >>
                          ELSE /\ evaluacion' = res.valor
                               /\ intentos_info' = Registrar(intentos_info, res.valor)
                               /\ intentos_hechos' = hechos
                               /\ rechazos' = 0
                               /\ excepcion' = excepcion
                               /\ IF fin = "ganado"
                                  THEN /\ pc' = "fin_ganado"
                                       /\ mensajes' = << "tablero", "felicidades", "gracias" >>
                                       /\ codigo_salida' = 0
                                       /\ revelado' = revelado
                                  ELSE IF fin = "perdido"
                                  THEN /\ pc' = "fin_perdido"
                                       /\ mensajes' = << "tablero", "se_acabaron", "secreto", "gracias" >>
                                       /\ codigo_salida' = 0
                                       /\ revelado' = PalabraRevelada(secreto, g)
                                  ELSE /\ pc' = "esperando_intento"
                                       /\ mensajes' = << "tablero", "sigue" >>
                                       /\ UNCHANGED << codigo_salida, revelado >>
    /\ UNCHANGED << longitud, max_intentos, lista_palabras, secreto,
                    clase_respuesta, senal, entrada >>

\* lines 201-206: KeyboardInterrupt at a prompt or in the network call, where
\* the try of lines 60-65 is the first to see it
Interrumpir ==
    /\ pc \in PosicionesActivas
    /\ senal' = "SIGINT"
    /\ IF pc = "descargar" /\ CapturadaEnLinea63("KeyboardInterrupt")
       THEN \* lines 63-65 and 159-161: taken for a connection error
            /\ pc' = "salida_1"
            /\ mensajes' = << "error_conexion", "sin_palabras" >>
            /\ codigo_salida' = 1
            /\ clase_respuesta' = "fallo_transporte"
            /\ revelado' = revelado
       ELSE /\ pc' = "interrumpido"
            /\ mensajes' = << "interrumpido" >>
            /\ codigo_salida' = 0
            /\ revelado' = ReveladoAlInterrumpir(revelado, secreto)
            /\ clase_respuesta' = clase_respuesta
    /\ UNCHANGED << longitud, max_intentos, lista_palabras, secreto, intento,
                    evaluacion, intentos_info, intentos_hechos, excepcion,
                    rechazos, entrada >>

\* lines 29 and 173: input() at the end of the input raises EOFError, which
\* nothing catches
FinDeEntrada ==
    /\ pc \in {"pedir_longitud", "pedir_intentos", "esperando_intento"}
    /\ pc' = "excepcion"
    /\ excepcion' = "EOFError"
    /\ mensajes' = << "traceback" >>
    /\ codigo_salida' = 1
    /\ UNCHANGED << longitud, max_intentos, lista_palabras, secreto, intento,
                    evaluacion, intentos_info, intentos_hechos, revelado,
                    clase_respuesta, rechazos, senal, entrada >>

Next ==
    \/ PedirLongitud
    \/ PedirIntentos
    \/ Descargar
    \/ Turno
    \/ Interrumpir
    \/ FinDeEntrada

Spec == Init /\ [][Next]_vars

---------------------------------------------------------------------------
(* The acquirer on its own: every answer of Respuestas, every length the   *)
(* session can ask for.                                                    *)

InitObtener ==
    /\ pc = "obtener"
    /\ entrada \in Respuestas
    /\ longitud \in LongitudMin..LongitudMax
    /\ max_intentos = 0
    /\ lista_palabras = << >>
    /\ secreto = << >>
    /\ intento = << >>
    /\ evaluacion = << >>
    /\ intentos_info = << >>
    /\ intentos_hechos = 0
    /\ mensajes = << >>
    /\ revelado = << >>
    /\ codigo_salida = "ninguno"
    /\ excepcion = "ninguna"
    /\ clase_respuesta = "ninguna"
    /\ rechazos = 0
    /\ senal = "ninguna"

\* one call obtener_palabras_de_internet(longitud) answered by entrada
Obtener_palabras ==
    /\ pc = "obtener"
    /\ LET res == obtener_palabras_de_internet(entrada, longitud)
       IN  /\ lista_palabras' = res.valor
           /\ excepcion' = res.excepcion
    /\ mensajes' = Diagnostico(entrada)
    /\ clase_respuesta' = ClaseDe(entrada)
    /\ pc' = "obtenido"
    /\ UNCHANGED << longitud, max_intentos, secreto, intento, evaluacion,
                    intentos_info, intentos_hechos, revelado, codigo_salida,
                    rechazos, senal, entrada >>

NextObtener == Obtener_palabras

SpecObtener == InitObtener /\ [][NextObtener]_vars

---------------------------------------------------------------------------
(* The normaliser on its own: every string over LetrasNorm up to           *)
(* MaxLargoNorm characters, and the strings the provider and the player of *)
(* the model send.                                                         *)

LetrasNorm ==
    {"a", "A", "n_tilde", "N_TILDE", "O_AGUDO", "comb_agudo", "mm_cuadrado",
     "o_barra", "sp", "4"}
MaxLargoNorm == 2

CadenasCrudas ==
    Secuencias(LetrasNorm, MaxLargoNorm) \cup EntradasIntento
        \cup PalabrasProveedor

InitNormalizar ==
    /\ pc = "normalizar"
    /\ entrada \in CadenasCrudas
    /\ longitud = 0
    /\ max_intentos = 0
    /\ lista_palabras = << >>
    /\ secreto = << >>
    /\ intento = << >>
    /\ evaluacion = << >>
    /\ intentos_info = << >>
    /\ intentos_hechos = 0
    /\ mensajes = << >>
    /\ revelado = << >>
    /\ codigo_salida = "ninguno"
    /\ excepcion = "ninguna"
    /\ clase_respuesta = "ninguna"
    /\ rechazos = 0
    /\ senal = "ninguna"

\* one call quitar_acentos(entrada)
Normalizar ==
    /\ pc = "normalizar"
    /\ intento' = quitar_acentos(entrada)
    /\ pc' = "normalizado"
    /\ UNCHANGED << longitud, max_intentos, lista_palabras, secreto, evaluacion,
                    intentos_info, intentos_hechos, mensajes, revelado,
                    codigo_salida, excepcion, clase_respuesta, rechazos, senal,
                    entrada >>

NextNormalizar == Normalizar

SpecNormalizar == InitNormalizar /\ [][NextNormalizar]_vars

\* the session and the evaluator's harness side by side
InitAmbos == Init \/ InitEval
NextAmbos == Next \/ NextEval
SpecAmbos == InitAmbos /\ [][NextAmbos]_vars

---------------------------------------------------------------------------
(* Vocabulary of the properties.                                           *)

\* Correct, Present and Absent are VERDE, AMARILLO and ROJO
Colores(ev) == [i \in 1..Len(ev) |-> ev[i][2]]
TodoCorrecto(ev) == \A i \in 1..Len(ev) : ev[i][2] = VERDE
Apariciones(c, w) == Cardinality({i \in 1..Len(w) : w[i] = c})
Evaluado == pc = "evaluado" /\ excepcion = "ninguna"
Invalido(g) == Len(g) # Len(secreto) \/ ~EsAlfabetica(g)

\* the states of the session, read from its data
Ganado == intentos_info # << >> /\ TodoCorrecto(intentos_info[Len(intentos_info)])
Perdido == max_intentos > 0 /\ intentos_hechos >= max_intentos /\ ~Ganado
Abortado == pc \in {"salida_1", "interrumpido"}
EnCurso == pc = "esperando_intento"

\* a step of the loop body: a guess was read at the prompt
PasoDeTurno ==
    pc = "esperando_intento" /\ pc' # "interrumpido" /\ excepcion' # "EOFError"

---------------------------------------------------------------------------
(* C1: for a guess and a secret of equal length, position i is VERDE       *)
(* exactly when the two words agree at i, so the VERDE entries are as many *)
(* as the positions where they agree.                                      *)
C1_VerdeSiiCoincide ==
    (Evaluado /\ Len(intento) = Len(secreto)) =>
        /\ Len(evaluacion) = Len(secreto)
        /\ \A i \in 1..Len(secreto) :
              (evaluacion[i][2] = VERDE) <=> (intento[i] = secreto[i])
        /\ Cardinality({i \in 1..Len(evaluacion) : evaluacion[i][2] = VERDE})
              = Cardinality({i \in 1..Len(secreto) : intento[i] = secreto[i]})

\* a guess that shares a letter with the secret at one position and has the
\* same letter, unmatched, at another
C1_Testigo ==
    /\ Evaluado
    /\ Len(intento) = Len(secreto)
    /\ \E i, j \in 1..Len(secreto) :
          /\ intento[i] = secreto[i]
          /\ intento[j] # secreto[j]
          /\ intento[j] = intento[i]
          /\ evaluacion[i][2] = VERDE
          /\ evaluacion[j][2] # VERDE

(* C2: for a guess and a secret of equal length and every letter c, the    *)
(* positions of the result that hold c and are VERDE or AMARILLO are never *)
(* more than the occurrences of c in the secret.                           *)
C2_NoMasQueEnSecreto ==
    (Evaluado /\ Len(intento) = Len(secreto)) =>
        \A c \in {intento[i] : i \in 1..Len(intento)} :
            Cardinality({i \in 1..Len(evaluacion) :
                            /\ evaluacion[i][1] = c
                            /\ evaluacion[i][2] \in {VERDE, AMARILLO}})
                <= Apariciones(c, secreto)

\* the guess repeats a letter more often than the secret holds it: one
\* occurrence is AMARILLO and a later one ROJO
C2_Testigo ==
    /\ Evaluado
    /\ Len(intento) = Len(secreto)
    /\ \E i, j \in 1..Len(intento) :
          /\ i < j
          /\ intento[i] = intento[j]
          /\ Apariciones(intento[i], intento) > Apariciones(intento[i], secreto)
          /\ evaluacion[i][2] = AMARILLO
          /\ evaluacion[j][2] = ROJO

(* C3: ALLOY against LLAMA gives AMARILLO, VERDE, AMARILLO, ROJO, ROJO;    *)
(* the L marked AMARILLO are no more than the L of the secret left over    *)
(* by the exact matches.                                                   *)
C3_AlloyLlama ==
    (Evaluado /\ intento = ALLOY /\ secreto = LLAMA) =>
        /\ Colores(evaluacion) = << AMARILLO, VERDE, AMARILLO, ROJO, ROJO >>
        /\ Cardinality({i \in 1..Len(evaluacion) :
                          evaluacion[i] = << "L", AMARILLO >>})
              <= Cardinality({i \in 1..Len(LLAMA) :
                                LLAMA[i] = "L" /\ ALLOY[i] # "L"})

C3_Testigo == Evaluado /\ intento = ALLOY /\ secreto = LLAMA

(* C4: a word against itself is all VERDE and a different word of the same *)
(* length is not; and an accepted guess ends the session as won exactly    *)
(* when the normalised guess is the secret, whatever budget is left.       *)
C4_GanaSiiIgual ==
    /\ []((Evaluado /\ Len(intento) = Len(secreto)) =>
            (TodoCorrecto(evaluacion) <=> intento = secreto))
    /\ [][(PasoDeTurno /\ intentos_hechos' = intentos_hechos + 1) =>
            /\ evaluacion' = intentos_info'[Len(intentos_info')]
            /\ TodoCorrecto(evaluacion') <=> intento' = secreto
            /\ pc' = "fin_ganado" <=> intento' = secreto]_vars

\* won by a guess typed in capitals between spaces, with budget left
C4_Testigo ==
    /\ pc = "fin_ganado"
    /\ intento = secreto
    /\ TodoCorrecto(evaluacion)
    /\ intentos_hechos < max_intentos

(* C5: a guess whose normalised form has another length than the secret or *)
(* a non-alphabetic character is rejected: no result is produced, history  *)
(* and counter keep their values and the session stays at the prompt, for  *)
(* every run of consecutive rejected guesses.                              *)
C5_RechazoNoCambiaNada ==
    [][(PasoDeTurno /\ Invalido(intento')) =>
          /\ UNCHANGED << evaluacion, intentos_info, intentos_hechos, secreto,
                          revelado, codigo_salida, excepcion >>
          /\ pc' = "esperando_intento"
          /\ mensajes' = << "intento_invalido" >>]_vars

\* after one accepted guess, MaxRechazos rejected ones in a row: the history
\* still holds that one result
C5_Testigo ==
    /\ pc = "esperando_intento"
    /\ rechazos >= 2
    /\ Invalido(intento)
    /\ intentos_hechos = 1
    /\ Len(intentos_info) = 1

(* C6: when the guess that uses up the budget is all VERDE the session is  *)
(* won: the loss report and the secret are never printed on such a turn.   *)
C6_UltimoIntentoGana ==
    (/\ intentos_hechos > 0
     /\ intentos_hechos = max_intentos
     /\ Len(intentos_info) = intentos_hechos
     /\ TodoCorrecto(intentos_info[Len(intentos_info)])) =>
        /\ pc = "fin_ganado"
        /\ revelado = << >>
        /\ \A i \in 1..Len(mensajes) : mensajes[i] \notin {"se_acabaron", "secreto"}
        /\ \E i \in 1..Len(mensajes) : mensajes[i] = "felicidades"

\* won on the last of at least two attempts
C6_Testigo ==
    /\ pc = "fin_ganado"
    /\ max_intentos >= 2
    /\ intentos_hechos = max_intentos
    /\ TodoCorrecto(evaluacion)

(* C7: when max_intentos guesses were accepted and none is all VERDE the   *)
(* session is lost and prints the secret, in capitals; the secret is the   *)
(* word chosen after the download, which no later step changes.            *)
C7_DerrotaRevelaSecreto ==
    /\ []((/\ max_intentos > 0
           /\ intentos_hechos = max_intentos
           /\ \A k \in 1..Len(intentos_info) : ~TodoCorrecto(intentos_info[k])) =>
            /\ pc = "fin_perdido"
            /\ revelado = EnMayusculas(secreto)
            /\ EnMinusculas(revelado) = secreto
            /\ \E i \in 1..Len(lista_palabras) : lista_palabras[i] = secreto
            /\ \E i \in 1..Len(mensajes) : mensajes[i] = "secreto")
    /\ [][pc # "descargar" => secreto' = secreto]_vars

\* lost after two accepted guesses, rejected ones in between or not
C7_Testigo ==
    /\ pc = "fin_perdido"
    /\ max_intentos >= 2
    /\ intentos_hechos = max_intentos
    /\ revelado = EnMayusculas(secreto)
    /\ revelado # EnMayusculas(intento)

(* C8: once the session is won, lost or aborted no step reads, evaluates   *)
(* or records a guess.                                                     *)
C8_FinalSinTurnos ==
    [][(Ganado \/ Perdido \/ Abortado) =>
          UNCHANGED << pc, intento, evaluacion, intentos_info, intentos_hechos,
                       mensajes, rechazos >>]_vars

\* aborted by an interrupt at the guess prompt, with a result on the board
C8_Testigo ==
    /\ pc = "interrumpido"
    /\ intentos_hechos >= 1
    /\ intentos_hechos < max_intentos
    /\ ~Ganado

(* C9: on a transport failure or a malformed payload, a payload that      *)
(* decodes as JSON but is no sequence of records with a word field         *)
(* included, the acquirer returns an empty pool and raises nothing, and    *)
(* the session ends without reaching the guess prompt.                     *)
C9_FalloDaListaVacia ==
    clase_respuesta \in {"fallo_transporte", "json_invalido", "forma_invalida"} =>
        /\ excepcion = "ninguna"
        /\ lista_palabras = << >>
        /\ pc = "salida_1"
        /\ intentos_info = << >>

\* what the caller of the acquirer, and of the process, is left with when the
\* pool is empty: the list returned, the last line printed, the exit status
RazonTerminacion == << lista_palabras, mensajes[Len(mensajes)], codigo_salida >>
RazonSinCandidatos == << << >>, "sin_palabras", 1 >>
HayDiagnostico ==
    \E i \in 1..Len(mensajes) : mensajes[i] \in {"error_conexion", "json_invalido"}

(* C10 as stated: when initialisation ends with an empty pool, the         *)
(* termination reason the caller sees tells an acquisition failure from    *)
(* NoCandidates.                                                           *)
C10_RazonDistingue ==
    (pc = "salida_1" /\ clase_respuesta \in {"fallo_transporte", "json_invalido"}) =>
        RazonTerminacion # RazonSinCandidatos

(* C10 as amended: when initialisation ends with an empty pool the caller  *)
(* sees the same empty list, the same closing message and exit status 1    *)
(* whether the acquisition failed or the filter left no word; only a       *)
(* diagnostic line printed by the acquirer, on a transport or JSON         *)
(* decoding failure and on nothing else, tells them apart; both are final. *)
C10_MismaRazon ==
    pc = "salida_1" =>
        /\ RazonTerminacion = RazonSinCandidatos
        /\ HayDiagnostico <=>
              clase_respuesta \in {"fallo_transporte", "json_invalido"}
        /\ secreto = << >>
        /\ intentos_info = << >>
        /\ ~ENABLED Next

\* the body was no JSON: the decoding diagnostic, then the common exit
C10_Testigo ==
    /\ pc = "salida_1"
    /\ clase_respuesta = "json_invalido"
    /\ mensajes = << "json_invalido", "sin_palabras" >>
    /\ codigo_salida = 1

---------------------------------------------------------------------------
\* the first place of the payload whose normalised word is w
PrimeraAparicion(datos, w) ==
    CHOOSE i \in 1..Len(datos) :
        /\ quitar_acentos(CampoWord(datos[i])) = w
        /\ \A j \in 1..(i - 1) : quitar_acentos(CampoWord(datos[j])) # w

C11_Contenido ==
    (pc = "obtenido" /\ excepcion = "ninguna") =>
        LET datos == entrada.datos
            pool == lista_palabras
            pasa(w) == Len(w) = longitud /\ EsAlfabetica(w)
        IN  /\ \A k \in 1..Len(pool) :
                  /\ pasa(pool[k])
                  /\ \A i \in 1..Len(pool[k]) :
                        pool[k][i] \notin Combinantes \cup MayusculasAscii
                  /\ entrada.transporte = "ok" /\ entrada.json = "lista"
                  /\ \E i \in 1..Len(datos) :
                        /\ datos[i].word_tipo = "str"
                        /\ quitar_acentos(datos[i].word) = pool[k]
            /\ \A k, l \in 1..Len(pool) : k # l => pool[k] # pool[l]
            /\ \A k, l \in 1..Len(pool) :
                  k < l => PrimeraAparicion(datos, pool[k])
                              < PrimeraAparicion(datos, pool[l])
            /\ (entrada.transporte = "ok" /\ entrada.json = "lista") =>
                  \A i \in 1..Len(datos) :
                      pasa(quitar_acentos(CampoWord(datos[i]))) =>
                          \E k \in 1..Len(pool) :
                              pool[k] = quitar_acentos(CampoWord(datos[i]))

\* a payload of string words only never raises, whatever the words
C11_SinError ==
    (pc = "obtenido" /\ clase_respuesta = "ok") => excepcion = "ninguna"

(* C11: the pool the acquirer returns holds only normalised words of       *)
(* exactly longitud characters, all alphabetic, none twice, in the order   *)
(* of their first appearance in the response, and every word that passes   *)
(* the two tests is in it; a word that fails one is dropped and raises     *)
(* nothing.                                                                *)
C11_PoolFiltrado == C11_Contenido /\ C11_SinError

\* an accented word, then the same word twice, in capitals first: two words
\* are kept, normalised, in the order they came
C11_Testigo ==
    /\ pc = "obtenido"
    /\ excepcion = "ninguna"
    /\ longitud = 5
    /\ entrada.datos = << Registro(P_canon_acentos), Registro(P_LLAMA),
                          Registro(P_llama) >>
    /\ lista_palabras = << T_canon, T_llama >>

\* a result with a letter and one of the three colours at every position
Completa(ev) ==
    /\ Len(ev) = Len(secreto)
    /\ \A i \in 1..Len(ev) :
          ev[i][1] # "" /\ ev[i][2] \in {VERDE, AMARILLO, ROJO}

(* C12: an interrupt at a prompt or during the network call ends the       *)
(* session as aborted, with the farewell, exit status 0 and no uncaught    *)
(* exception; the history then holds as many results as were counted, each *)
(* of them complete.                                                       *)
C12_InterrupcionLimpia ==
    senal = "SIGINT" =>
        /\ pc = "interrumpido"
        /\ codigo_salida = 0
        /\ excepcion = "ninguna"
        /\ mensajes = << "interrumpido" >>
        /\ Len(intentos_info) = intentos_hechos
        /\ \A k \in 1..Len(intentos_info) : Completa(intentos_info[k])

\* interrupted during the network call, before any pool exists
C12_Testigo ==
    /\ senal = "SIGINT"
    /\ pc = "interrumpido"
    /\ max_intentos > 0
    /\ clase_respuesta = "ninguna"
    /\ lista_palabras = << >>

(* C13: the secret is never printed while the session is in progress:      *)
(* where it has been printed the session has ended, as lost.               *)
C13_SecretoSoloAlFinal ==
    /\ revelado # << >> => pc = "fin_perdido"
    /\ (\E i \in 1..Len(mensajes) : mensajes[i] = "secreto") => pc = "fin_perdido"
    /\ pc \in PosicionesActivas => revelado = << >>

\* lost on the only attempt: the secret is on the screen, the session over
C13_Testigo ==
    /\ pc = "fin_perdido"
    /\ max_intentos = 1
    /\ revelado = EnMayusculas(secreto)
    /\ secreto # << >>

C15_SoloLetrasBasicas ==
    /\ \A i \in 1..Len(secreto) : secreto[i] \in MinusculasAscii
    /\ \A k \in 1..Len(intentos_info) :
          \A i \in 1..Len(intentos_info[k]) :
              intentos_info[k][i][1] \in MinusculasAscii

(* C16: quitar_acentos removes the diacritical marks and lower-cases: it   *)
(* takes CANON written with N-tilde and O-acute to canon, as it takes      *)
(* canon itself, and leaves no combining mark,                             *)
(* no accented letter and no capital in any string.                        *)
C16_QuitaAcentos ==
    pc = "normalizado" =>
        /\ entrada = T_CANON_acentos => intento = T_canon
        /\ entrada = T_canon => intento = T_canon
        /\ \A i \in 1..Len(intento) :
              intento[i] \notin Combinantes \cup Acentuadas \cup MayusculasAscii
                                  \cup {"O_BARRA"}

C16_Testigo ==
    /\ pc = "normalizado"
    /\ entrada = T_CANON_acentos
    /\ intento = T_canon
    /\ intento # entrada

(* C17: when the pool holds exactly one word, that word is the secret.     *)
C17_PoolDeUno ==
    Len(lista_palabras) = 1 => secreto = lista_palabras[1]

\* the provider sent the same word twice, so the pool holds it once
C17_Testigo ==
    /\ pc = "esperando_intento"
    /\ lista_palabras = << T_canon >>
    /\ secreto = T_canon

\* the positions of the guess that hold c and are not VERDE, and the
\* occurrences of c in the secret that no exact match uses
NoVerdesDe(c) ==
    {i \in 1..Len(intento) : intento[i] = c /\ evaluacion[i][2] # VERDE}
SobrantesDe(c) ==
    Cardinality({i \in 1..Len(secreto) : secreto[i] = c /\ intento[i] # c})
Minimo(a, b) == IF a <= b THEN a ELSE b

(* C18: for a guess and a secret of equal length and every letter c, the   *)
(* positions of c in the guess that are not VERDE are AMARILLO for the     *)
(* leftmost k of them and ROJO for the rest, k being the smaller of their  *)
(* number and the occurrences of c in the secret that no exact match uses; *)
(* VERDE plus AMARILLO for c is then the smaller of the occurrences of c   *)
(* in the guess and in the secret.                                         *)
C18_AmarilloDeIzquierdaADerecha ==
    (Evaluado /\ Len(intento) = Len(secreto)) =>
        \A c \in {intento[i] : i \in 1..Len(intento)} :
            LET libres == NoVerdesDe(c)
                k == Minimo(Cardinality(libres), SobrantesDe(c))
                antes(i) == Cardinality({j \in libres : j < i})
            IN  /\ \A i \in libres :
                      evaluacion[i] =
                          << c, IF antes(i) < k THEN AMARILLO ELSE ROJO >>
                /\ Cardinality({i \in libres : evaluacion[i][2] = AMARILLO}) = k
                /\ Cardinality({i \in 1..Len(evaluacion) :
                                    /\ evaluacion[i][1] = c
                                    /\ evaluacion[i][2] \in {VERDE, AMARILLO}})
                      = Minimo(Apariciones(c, intento), Apariciones(c, secreto))

\* three unmatched occurrences of a letter in the guess, one left over in
\* the secret to the right of them all: the first is AMARILLO, the other
\* two ROJO
C18_Testigo ==
    /\ Evaluado
    /\ intento = << "a", "a", "a", "l" >>
    /\ secreto = << "l", "m", "m", "a" >>
    /\ Colores(evaluacion) = << AMARILLO, ROJO, ROJO, AMARILLO >>

(* C19: the history holds as many results as attempts were counted, never *)
(* more than max_intentos; it changes only when a guess is accepted, and   *)
(* then by one result appended and one attempt counted, the earlier        *)
(* results staying as they were.                                           *)
C19_HistorialSoloCrece ==
    /\ [](/\ Len(intentos_info) = intentos_hechos
          /\ intentos_hechos <= max_intentos)
    /\ [][intentos_info' # intentos_info =>
            /\ PasoDeTurno
            /\ ~Invalido(intento')
            /\ intentos_info' = Append(intentos_info, evaluacion')
            /\ intentos_hechos' = intentos_hechos + 1]_vars
    /\ [][(PasoDeTurno /\ ~Invalido(intento')) =>
            /\ Len(intentos_info') = Len(intentos_info) + 1
            /\ SubSeq(intentos_info', 1, Len(intentos_info)) = intentos_info]_vars

\* two accepted guesses, the first kept below the second
C19_Testigo ==
    /\ intentos_hechos = 2
    /\ Len(intentos_info) = 2
    /\ intentos_info[2] = evaluacion
    /\ intentos_info[1] # intentos_info[2]
    /\ Colores(intentos_info[1]) # Colores(intentos_info[2])

(* C20: the secret has the requested length, and every guess handed to the *)
(* evaluator has the length of the secret: no evaluation raises            *)
(* IndexError, and the result has a colour for every letter of the guess.  *)
C20_LargosIguales ==
    /\ [](/\ secreto # << >> => Len(secreto) = longitud
          /\ excepcion # "IndexError"
          /\ \A k \in 1..Len(intentos_info) :
                Len(intentos_info[k]) = Len(secreto))
    /\ [][(PasoDeTurno /\ validar_intento(intento', longitud)) =>
            /\ Len(intento') = Len(secreto)
            /\ excepcion' = "ninguna"
            /\ Len(evaluacion') = Len(intento')
            /\ \A i \in 1..Len(intento') : evaluacion'[i][1] = intento'[i]]_vars

\* a session of six letters: a guess of six letters was evaluated after one
\* of five was refused
C20_Testigo ==
    /\ longitud = 6
    /\ secreto = T_macana
    /\ intento = T_macana
    /\ intentos_hechos = 1
    /\ Len(evaluacion) = 6
    /\ excepcion = "ninguna"

=============================================================================
